---- MODULE Spec2Model ----
(***************************************************************************)
(* Fame Flywheel: the job store (tables videos and performance_log) and    *)
(* the three cron-style triggers that share it:                            *)
(*   brain.py     scheduling: find_best_parameters, explore/exploit,       *)
(*                insert_new_job                                           *)
(*   creator.py   production: get_pending_job, update_job_status around    *)
(*                the generation pipeline                                  *)
(*   feedback.py  telemetry: get_uploaded_videos, insert_performance_log,  *)
(*                promotion to ANALYZED                                    *)
(* The publisher (upload to the platform) is an external collaborator.     *)
(*                                                                         *)
(* Time is counted in ticks of 1/TicksPerSecond second, so that            *)
(* int(time.time()) (keys, sample timestamps, the retention cut-off) and   *)
(* the float time.time() of the maturity test are told apart.              *)
(* A nullable column or Python None is the empty sequence, a present       *)
(* value v is <<v>>.                                                       *)
(***************************************************************************)
EXTENDS Integers, Sequences, FiniteSets, TLC

VARIABLES clock, videos, performance_log, creator, collector, brain

vars == <<clock, videos, performance_log, creator, collector, brain>>

None == <<>>
Some(x) == <<x>>

-----------------------------------------------------------------------------
(* Bounds of the model *)

\* jobs the store may hold
MaxJobs == 3
\* rows of performance_log
MaxLog == 3
\* entries of each exploration catalog that random.choice is let to draw
MaxGenreDraw == 2
MaxStyleDraw == 1
MaxVoiceDraw == 1
\* samples of one job before maturity, in a store with a history
MaxSamples == 2
\* the second of the timeline at which the second job is scheduled and the
\* videos with a history were published
UploadSecond == 1
\* ticks of the clock per second
TicksPerSecond == 2

\* the epoch second at which the model's clock starts
Epoch == 1700000000

-----------------------------------------------------------------------------
(* Program constants *)

\* brain.py EXPLOIT_THRESHOLD = 0.8, in hundredths
EXPLOIT_THRESHOLD == 80
\* brain.py: the 2-10 hour window of the aggregation query
WindowStart == 7200
WindowEnd == 36000
\* feedback.py: the 12 hour maturity threshold
MaturitySeconds == 43200
\* feedback.py: 7 * 24 * 60 * 60
RetentionSeconds == 604800

EXPLORE_GENRES ==
  <<"creepy pasta", "weird history fact", "shocking science fact",
    "uplifting personal story", "mind-bending puzzle">>
EXPLORE_STYLES ==
  <<"photorealistic", "digital painting", "dark fantasy", "anime",
    "pixel art", "cinematic">>
EXPLORE_VOICES ==
  <<"en_US-kss-low", "en_US-ljspeech-medium", "en_US-vctk-low">>

Statuses == {"PENDING", "CREATING", "CREATED", "UPLOADED", "ANALYZED", "FAILED"}

-----------------------------------------------------------------------------
(* Inputs of the environment *)

Sec(s) == s * TicksPerSecond
\* int(time.time())
IntTime(t) == t \div TicksPerSecond

\* The instants at which something happens.  A video published at second
\* UploadSecond meets every threshold of the code exactly: the window's two
\* ends, the maturity threshold, one tick past it, and the retention cut-off.
TimePoints ==
  { Sec(0), Sec(0) + 1, Sec(UploadSecond),
    Sec(UploadSecond + WindowStart), Sec(UploadSecond + WindowEnd),
    Sec(UploadSecond + MaturitySeconds), Sec(UploadSecond + MaturitySeconds) + 1,
    Sec(UploadSecond + RetentionSeconds) }

\* random.random(), in hundredths
RandomDraws == {10, 80}

\* viewCount values the platform reports
Views == {100, 350}

Procs == {1, 2}

Script == "story"
Hook == "hook"
YoutubeId == "yt1"

-----------------------------------------------------------------------------
(* The store *)

Min(a, b) == IF a < b THEN a ELSE b

SetMin(S) == CHOOSE x \in S : \A y \in S : x <= y
SetMax(S) == CHOOSE x \in S : \A y \in S : x >= y

\* INSERT INTO videos (video_key, status, genre, image_style, voice): every
\* other column is NULL
NewVideo(genre, style, voice) ==
  [ status |-> "PENDING", genre |-> genre, image_style |-> style,
    voice |-> voice, generated_script |-> None, hook_prompt |-> None,
    upload_time |-> None, youtube_id |-> None ]

\* video_key is the key of the table: a second row with the same key is
\* refused (sqlite3.IntegrityError)
KeyExists(vs, key) == key \in DOMAIN vs

Extend(vs, key, row) ==
  [k \in DOMAIN vs \cup {key} |-> IF k = key THEN row ELSE vs[k]]

\* brain.py insert_new_job: the key is the text "v_" followed by the decimal
\* digits of the epoch second.  The model counts its seconds from Epoch.
RECURSIVE Digits(_)
Digits(n) == IF n < 10 THEN <<n>> ELSE Append(Digits(n \div 10), n % 10)

KeyText(key) == Digits(Epoch + key)

\* the order of ORDER BY on a TEXT column: character by character, a proper
\* prefix first
RECURSIVE TextLE(_, _)
TextLE(a, b) ==
  IF a = <<>> THEN TRUE
  ELSE IF b = <<>> THEN FALSE
  ELSE IF Head(a) # Head(b) THEN Head(a) < Head(b)
  ELSE TextLE(Tail(a), Tail(b))

\* ORDER BY video_key DESC LIMIT 1
LastInKeyOrder(S) ==
  CHOOSE x \in S : \A y \in S : TextLE(KeyText(y), KeyText(x))

\* ORDER BY video_key LIMIT 1
FirstInKeyOrder(S) ==
  CHOOSE x \in S : \A y \in S : TextLE(KeyText(x), KeyText(y))

\* a selection that also takes up the jobs left in CREATING
PendingOrCreatingKeys(vs) ==
  {k \in DOMAIN vs : vs[k].status \in {"PENDING", "CREATING"}}

\* creator.py get_pending_job: ... WHERE status = 'PENDING'
\* ORDER BY video_key LIMIT 1
PendingKeys(vs) == {k \in DOMAIN vs : vs[k].status = "PENDING"}

get_pending_job(vs) ==
  IF PendingKeys(vs) = {} THEN None
  ELSE Some(FirstInKeyOrder(PendingKeys(vs)))

\* an update that also rewrites the genre column
update_job_status_retitling(vs, video_key, status, script, hook) ==
  [vs EXCEPT ![video_key] =
     [@ EXCEPT !.status = status,
               !.genre = EXPLORE_GENRES[Len(EXPLORE_GENRES)]]]

\* creator.py update_job_status: UPDATE videos SET status = ? [, generated_script = ?]
\* [, hook_prompt = ?] WHERE video_key = ?, the optional columns only when
\* the argument is truthy; no condition on the current status.
update_job_status(vs, video_key, status, script, hook) ==
  [vs EXCEPT ![video_key] =
     [@ EXCEPT !.status = status,
               !.generated_script = IF script # None THEN script ELSE @,
               !.hook_prompt = IF hook # None THEN hook ELSE @]]

\* an update that is not idempotent: writing the status a job already has
\* sends it back to UPLOADED
update_video_status_toggling(vs, video_key, new_status) ==
  [vs EXCEPT ![video_key].status =
     IF @ = new_status THEN "UPLOADED" ELSE new_status]

\* feedback.py update_video_status: UPDATE videos SET status = ? WHERE video_key = ?
update_video_status(vs, video_key, new_status) ==
  [vs EXCEPT ![video_key].status = new_status]

\* a selection that lets a NULL upload_time through
WithinRetentionOrUnset(upload_time, now) ==
  \/ upload_time = None
  \/ upload_time[1] > IntTime(now) - RetentionSeconds

\* a selection that still takes a job uploaded exactly 7 days ago
WithinRetentionInclusive(upload_time, now) ==
  /\ upload_time # None
  /\ upload_time[1] >= IntTime(now) - RetentionSeconds

\* feedback.py get_uploaded_videos: SELECT video_key, youtube_id FROM videos
\* WHERE status IN ('UPLOADED', 'ANALYZED') AND upload_time > ?, the
\* parameter being int(time.time()) - 7 days.  A NULL upload_time compares
\* to NULL, which selects nothing.
WithinRetention(upload_time, now) ==
  /\ upload_time # None
  /\ upload_time[1] > IntTime(now) - RetentionSeconds

get_uploaded_videos(vs, now) ==
  { [video_key |-> k, youtube_id |-> vs[k].youtube_id] :
      k \in { j \in DOMAIN vs : /\ vs[j].status \in {"UPLOADED", "ANALYZED"}
                                /\ WithinRetention(vs[j].upload_time, now) } }

\* feedback.py insert_performance_log: timestamp = int(time.time()); log_id
\* is the row's position.  likes and comments are stored and never read.
insert_performance_log(log, video_key, views, now) ==
  Append(log, [video_key |-> video_key, timestamp |-> IntTime(now),
               views |-> views, likes |-> 0, comments |-> 0])

\* a maturity test that includes the threshold
MatureInclusive(upload_time, now) ==
  now - Sec(upload_time) >= Sec(MaturitySeconds)

\* a maturity test that passes as soon as the window opens
MatureFromWindowStart(upload_time, now) ==
  now - Sec(upload_time) >= Sec(WindowStart)

\* feedback.py main: if (time.time() - upload_time) > 43200
Mature(upload_time, now) == now - Sec(upload_time) > Sec(MaturitySeconds)

-----------------------------------------------------------------------------
(* brain.py find_best_parameters: the aggregation query, clause by clause *)

\* a window with no lower end
InWindowOrBefore(timestamp, upload_time) ==
  /\ upload_time # None
  /\ timestamp <= upload_time[1] + WindowEnd

\* a window that leaves out its first second
InWindowAfterStart(timestamp, upload_time) ==
  /\ upload_time # None
  /\ timestamp > upload_time[1] + WindowStart
  /\ timestamp <= upload_time[1] + WindowEnd

\* p.timestamp BETWEEN (v.upload_time + 7200) AND (v.upload_time + 36000);
\* NULL when upload_time is NULL, and the row is dropped
InWindow(timestamp, upload_time) ==
  /\ upload_time # None
  /\ timestamp >= upload_time[1] + WindowStart
  /\ timestamp <= upload_time[1] + WindowEnd

\* v.status = 'ANALYZED'
StatusSelected(status) == status = "ANALYZED"

\* a HAVING clause that asks for a third data point
HavingMoreThanTwo(n) == n > 2

\* HAVING COUNT(p.log_id) > 1
HavingEnough(n) == n > 1

\* videos v JOIN performance_log p ON v.video_key = p.video_key WHERE ...:
\* the log rows joined to video k that pass the WHERE clause
JoinedRows(vs, log, k) ==
  { i \in DOMAIN log : /\ log[i].video_key = k
                       /\ StatusSelected(vs[k].status)
                       /\ InWindow(log[i].timestamp, vs[k].upload_time) }

RowViews(log, rows) == { log[i].views : i \in rows }

\* the common table expression VideoGains: one row per video_key group that
\* passes HAVING, with MAX(p.views) - MIN(p.views) AS view_gain
VideoGains(vs, log) ==
  { [ video_key |-> k, genre |-> vs[k].genre,
      image_style |-> vs[k].image_style, voice |-> vs[k].voice,
      view_gain |-> SetMax(RowViews(log, JoinedRows(vs, log, k)))
                    - SetMin(RowViews(log, JoinedRows(vs, log, k))) ] :
      k \in { j \in DOMAIN vs :
                HavingEnough(Cardinality(JoinedRows(vs, log, j))) } }

ComboOf(g) == <<g.genre, g.image_style, g.voice>>

\* GROUP BY genre, image_style, voice
ComboRows(gains, c) == { g \in gains : ComboOf(g) = c }

RECURSIVE SumGain(_)
SumGain(rows) ==
  IF rows = {} THEN 0
  ELSE LET g == CHOOSE x \in rows : TRUE
       IN g.view_gain + SumGain(rows \ {g})

\* AVG(view_gain) AS fame_velocity, kept as the fraction <<sum, count>>
FameVelocity(gains, c) ==
  <<SumGain(ComboRows(gains, c)), Cardinality(ComboRows(gains, c))>>

\* the order of ORDER BY fame_velocity without DESC
FractionLE(x, y) == x[1] * y[2] <= y[1] * x[2]

\* a / b >= c / d for fractions of positive denominator
FractionGE(x, y) == x[1] * y[2] >= y[1] * x[2]

\* ORDER BY fame_velocity DESC LIMIT 1: a row no other row beats; which one
\* of several equal rows comes first is not determined by the query
TopCombos(gains) ==
  LET combos == { ComboOf(g) : g \in gains }
  IN { c \in combos :
         \A d \in combos :
           FractionGE(FameVelocity(gains, c), FameVelocity(gains, d)) }

\* the values find_best_parameters may return: None when the query raised
\* sqlite3.Error or returned no row, else (genre, image_style, voice)
find_best_parameters(vs, log, query_ok) ==
  IF ~query_ok \/ VideoGains(vs, log) = {}
  THEN {None}
  ELSE { Some(c) : c \in TopCombos(VideoGains(vs, log)) }

\* random.choice over a catalog, the draw bounded to its first n entries
Draw(catalog, n) == { catalog[i] : i \in 1..Min(n, Len(catalog)) }

\* brain.py explore_parameters
explore_parameters ==
  Draw(EXPLORE_GENRES, MaxGenreDraw)
    \X Draw(EXPLORE_STYLES, MaxStyleDraw)
    \X Draw(EXPLORE_VOICES, MaxVoiceDraw)

\* brain.py insert_new_job: video_key = f"v_{int(time.time())}"; the
\* sqlite3.Error of a refused INSERT is caught and printed
insert_new_job(vs, now, params) ==
  LET video_key == IntTime(now)
  IN IF KeyExists(vs, video_key)
     THEN vs
     ELSE Extend(vs, video_key, NewVideo(params[1], params[2], params[3]))

\* lines 114-115: except sqlite3.Error: the error is printed to stderr and
\* the function returns None, as it does after an insert that went through
InsertError(vs, now) ==
  IF KeyExists(vs, IntTime(now)) THEN "printed" ELSE "none"

-----------------------------------------------------------------------------
(* Initial state: an empty store, every trigger at rest *)

BrainIdle == [pc |-> "idle", insert_error |-> "none", query_ok |-> TRUE,
              best |-> None, r |-> 0,
              explored |-> FALSE, params |-> None]
CreatorIdle == [pc |-> "idle", job |-> None, raised |-> FALSE]
\* skipped: the jobs for which this round printed that get_video_stats failed
CollectorIdle == [pc |-> "idle", videos_to_check |-> {}, skipped |-> {}]

Init ==
  /\ clock = Sec(0)
  /\ videos = <<>>
  /\ performance_log = <<>>
  /\ creator = [p \in Procs |-> CreatorIdle]
  /\ collector = CollectorIdle
  /\ brain = BrainIdle

-----------------------------------------------------------------------------
(* The clock *)

AdvanceWithin(points) ==
  /\ \E t \in points : t > clock /\ clock' = t
  /\ UNCHANGED <<videos, performance_log, creator, collector, brain>>

Advance == AdvanceWithin(TimePoints)

-----------------------------------------------------------------------------
(* brain.py main: the scheduling trigger *)

\* an exploit test that includes the threshold
ExploitsInclusive(best, r) == best # None /\ r <= EXPLOIT_THRESHOLD

\* line 133: if best_params and random.random() < EXPLOIT_THRESHOLD
Exploits(best, r) == best # None /\ r < EXPLOIT_THRESHOLD

\* lines 130-138: the aggregation query, the random draw, exploit or explore
\* (explored: explore_parameters was called and printed its line)
BrainChoose ==
  /\ brain.pc = "idle"
  /\ Cardinality(DOMAIN videos) < MaxJobs
  /\ \E query_ok \in BOOLEAN, r \in RandomDraws :
       \E best \in find_best_parameters(videos, performance_log, query_ok) :
         \/ /\ Exploits(best, r)
            /\ brain' = [pc |-> "chosen", insert_error |-> "none",
                         query_ok |-> query_ok, best |-> best,
                         r |-> r, explored |-> FALSE, params |-> best]
         \/ /\ ~Exploits(best, r)
            /\ \E e \in explore_parameters :
                 brain' = [pc |-> "chosen", insert_error |-> "none",
                         query_ok |-> query_ok, best |-> best,
                           r |-> r, explored |-> TRUE, params |-> Some(e)]
  /\ UNCHANGED <<clock, videos, performance_log, creator, collector>>

\* line 141: insert_new_job, then the process ends
BrainInsert ==
  /\ brain.pc = "chosen"
  /\ videos' = insert_new_job(videos, clock, brain.params[1])
  /\ brain' = [BrainIdle EXCEPT !.insert_error = InsertError(videos, clock)]
  /\ UNCHANGED <<clock, performance_log, creator, collector>>

-----------------------------------------------------------------------------
(* creator.py main: the production trigger, one process per p *)

\* lines 250-259: get_pending_job; with no pending job the run ends
CreatorSelect(p) ==
  /\ creator[p].pc \in {"idle", "done"}
  /\ get_pending_job(videos) # None
  /\ creator' = [creator EXCEPT ![p] =
       [pc |-> "selected", job |-> get_pending_job(videos), raised |-> FALSE]]
  /\ UNCHANGED <<clock, videos, performance_log, collector, brain>>

\* an except clause that only reports the error
FailureHandlerSilent(vs, video_key) == vs

\* the except clause, lines 300-304: update_job_status(conn, video_key, 'FAILED').
\* A run raises at most once: the write of the except clause itself goes
\* through.
FailureHandler(vs, video_key) ==
  update_job_status(vs, video_key, "FAILED", None, None)

\* line 263: update_job_status(conn, video_key, 'CREATING'); when it raises
\* the except clause runs and the run ends
CreatorBegin(p) ==
  /\ creator[p].pc = "selected"
  /\ LET video_key == creator[p].job[1]
     IN \/ /\ videos' = update_job_status(videos, video_key, "CREATING", None, None)
           /\ creator' = [creator EXCEPT ![p].pc = "creating"]
        \/ /\ videos' = FailureHandler(videos, video_key)
           /\ creator' = [creator EXCEPT ![p].pc = "done", ![p].raised = TRUE]
  /\ UNCHANGED <<clock, performance_log, collector, brain>>

\* lines 265-304: models, text, speech, images, assembly, caption, then
\* update_job_status(conn, video_key, 'CREATED', script=story, hook=hook_prompt);
\* an exception of any of these steps, the last update included, runs the
\* except clause
CreatorProduce(p) ==
  /\ creator[p].pc = "creating"
  /\ LET video_key == creator[p].job[1]
     IN \/ /\ videos' = update_job_status(videos, video_key, "CREATED",
                                          Some(Script), Some(Hook))
           /\ creator' = [creator EXCEPT ![p].pc = "done"]
        \/ /\ videos' = FailureHandler(videos, video_key)
           /\ creator' = [creator EXCEPT ![p].pc = "done", ![p].raised = TRUE]
  /\ UNCHANGED <<clock, performance_log, collector, brain>>

-----------------------------------------------------------------------------
(* The publisher: uploads a CREATED video and records it *)

PublisherUpload ==
  /\ \E k \in DOMAIN videos, id \in {None, Some(YoutubeId)} :
       /\ videos[k].status = "CREATED"
       /\ videos' = [videos EXCEPT ![k] =
            [@ EXCEPT !.status = "UPLOADED",
                      !.upload_time = Some(IntTime(clock)),
                      !.youtube_id = id]]
  /\ UNCHANGED <<clock, performance_log, creator, collector, brain>>

PublisherAttachId ==
  /\ \E k \in DOMAIN videos :
       /\ videos[k].status = "UPLOADED"
       /\ videos[k].youtube_id = None
       /\ videos' = [videos EXCEPT ![k].youtube_id = Some(YoutubeId)]
  /\ UNCHANGED <<clock, performance_log, creator, collector, brain>>

-----------------------------------------------------------------------------
(* feedback.py main: the telemetry trigger *)

\* lines 123-128: get_uploaded_videos; with no row the run ends
CollectorStart ==
  /\ collector.pc = "idle"
  /\ get_uploaded_videos(videos, clock) # {}
  /\ collector' = [pc |-> "checking",
                   videos_to_check |-> get_uploaded_videos(videos, clock),
                   skipped |-> {}]
  /\ UNCHANGED <<clock, videos, performance_log, creator, brain>>

\* lines 149-152: after a sample was logged, read upload_time and promote
PromoteIfMature(vs, video_key, now) ==
  IF Mature(vs[video_key].upload_time[1], now)
  THEN update_video_status(vs, video_key, "ANALYZED")
  ELSE vs

\* a round that marks the job whose statistics it could not get
MarkFailedJob(vs, video_key) == update_video_status(vs, video_key, "FAILED")

\* a round that promotes the job whose statistics it could not get
PromoteUnsampledJob(vs, video_key) ==
  update_video_status(vs, video_key, "ANALYZED")

\* lines 137-138: get_video_stats returned None (no item, or an exception
\* it caught and printed), "if stats:" is false and the loop goes on
SkipJob(vs, video_key) == vs

\* lines 130-152: one turn of the loop over videos_to_check
CollectorStep ==
  /\ collector.pc = "checking"
  /\ \E video \in collector.videos_to_check :
       LET rest == collector.videos_to_check \ {video}
           after(skipped) == [pc |-> IF rest = {} THEN "idle" ELSE "checking",
                              videos_to_check |-> rest, skipped |-> skipped]
       IN \/ \* no youtube_id: skipped
             /\ video.youtube_id = None
             /\ collector' = after(collector.skipped)
             /\ UNCHANGED <<videos, performance_log>>
          \/ \* get_video_stats returned None
             /\ video.youtube_id # None
             /\ collector' = after(collector.skipped \cup {video.video_key})
             /\ videos' = SkipJob(videos, video.video_key)
             /\ UNCHANGED performance_log
          \/ \* statistics obtained: log them, then promote if mature
             /\ video.youtube_id # None
             /\ Len(performance_log) < MaxLog
             /\ collector' = after(collector.skipped)
             /\ \E views \in Views :
                  performance_log' =
                    insert_performance_log(performance_log, video.video_key,
                                           views, clock)
             /\ videos' = PromoteIfMature(videos, video.video_key, clock)
  /\ UNCHANGED <<clock, creator, brain>>

-----------------------------------------------------------------------------

(* The whole system: the three triggers, the publisher and the clock *)

Next ==
  \/ Advance
  \/ BrainChoose
  \/ BrainInsert
  \/ \E p \in Procs : CreatorSelect(p)
  \/ \E p \in Procs : CreatorBegin(p)
  \/ \E p \in Procs : CreatorProduce(p)
  \/ PublisherUpload
  \/ PublisherAttachId
  \/ CollectorStart
  \/ CollectorStep

Spec == Init /\ [][Next]_vars

-----------------------------------------------------------------------------
(* Scheduling and production: the brain and the creator processes, run     *)
(* within the first seconds                                                *)

ProductionTimes == { t \in TimePoints : t <= Sec(UploadSecond) }

AdvanceProduction == AdvanceWithin(ProductionTimes)

NextProduction ==
  \/ AdvanceProduction
  \/ BrainChoose
  \/ BrainInsert
  \/ \E p \in Procs : CreatorSelect(p)
  \/ \E p \in Procs : CreatorBegin(p)
  \/ \E p \in Procs : CreatorProduce(p)

SpecProduction == Init /\ [][NextProduction]_vars

-----------------------------------------------------------------------------
(* Publication and telemetry: the publisher and the collector over the     *)
(* whole timeline, started from a store whose jobs were scheduled in       *)
(* seconds 0 and 1 and produced                                            *)

CreatedVideo(params) ==
  [NewVideo(params[1], params[2], params[3]) EXCEPT
     !.status = "CREATED", !.generated_script = Some(Script),
     !.hook_prompt = Some(Hook)]

\* the job of second 0 has the first genre, the later job the second
ParamsOf(k) ==
  <<EXPLORE_GENRES[IF k = 0 THEN 1 ELSE 2], EXPLORE_STYLES[1], EXPLORE_VOICES[1]>>

ProducedStores ==
  { [k \in keys |-> CreatedVideo(ParamsOf(k))] :
      keys \in {{0}, {0, UploadSecond}} }

InitTelemetry ==
  /\ clock = Sec(UploadSecond)
  /\ videos \in ProducedStores
  /\ performance_log = <<>>
  /\ creator = [p \in Procs |-> CreatorIdle]
  /\ collector = CollectorIdle
  /\ brain = BrainIdle

NextTelemetry ==
  \/ Advance
  \/ PublisherUpload
  \/ PublisherAttachId
  \/ CollectorStart
  \/ CollectorStep

SpecTelemetry == InitTelemetry /\ [][NextTelemetry]_vars

-----------------------------------------------------------------------------
(* Aggregation and parameter selection: the brain run on a store with a    *)
(* history.  Its two jobs were published at UploadSecond and sampled at the *)
(* ends of the window and either side of it; an ANALYZED job also has the  *)
(* sample of the round that promoted it.                                   *)

Sample(k, t, v) ==
  [video_key |-> k, timestamp |-> t, views |-> v, likes |-> 0, comments |-> 0]

\* the sequences of at most n samples of job k, oldest first
Histories(k, times, views, n) ==
  { h \in UNION { [1..m -> { Sample(k, t, v) : t \in times, v \in views }] :
                    m \in 0..n } :
      \A i \in DOMAIN h : \A j \in DOMAIN h :
        i < j => h[i].timestamp <= h[j].timestamp }

\* the rounds that sampled job 0: at both ends of the window and a second
\* past it
HistoryTimes ==
  { UploadSecond + WindowStart, UploadSecond + WindowEnd,
    UploadSecond + WindowEnd + 1 }

HistoryViews == {100, 400}

\* the histories of the later job: no sample, one sample, and two samples at
\* the ends of the window that gain 300, gain 700, lose 700 or gain nothing
LaterHistories(k) ==
  { <<>>,
    <<Sample(k, UploadSecond + WindowStart, 100),
      Sample(k, UploadSecond + WindowEnd, 400)>>,
    <<Sample(k, UploadSecond + WindowStart, 100)>>,
    <<Sample(k, UploadSecond + WindowStart, 100),
      Sample(k, UploadSecond + WindowEnd, 800)>>,
    <<Sample(k, UploadSecond + WindowStart, 800),
      Sample(k, UploadSecond + WindowEnd, 100)>>,
    <<Sample(k, UploadSecond + WindowStart, 100),
      Sample(k, UploadSecond + WindowEnd, 100)>> }

\* jobs whose production failed; they fill the store up to one job below
\* MaxJobs, so that the run of the brain is the one that fills it
FailedKeys == { UploadSecond + i : i \in 1..(MaxJobs - 3) }

FailedVideo == [NewVideo(ParamsOf(0)[1], ParamsOf(0)[2], ParamsOf(0)[3])
                  EXCEPT !.status = "FAILED"]

\* a sample of the round a second before the window opens
EarlySample(k) == Sample(k, UploadSecond + WindowStart - 1, 50)

PromotionSample(k) == Sample(k, UploadSecond + MaturitySeconds, 900)

RECURSIVE MergeByTime(_, _)
MergeByTime(a, b) ==
  IF a = <<>> THEN b
  ELSE IF b = <<>> THEN a
  ELSE IF Head(a).timestamp <= Head(b).timestamp
       THEN <<Head(a)>> \o MergeByTime(Tail(a), b)
       ELSE <<Head(b)>> \o MergeByTime(a, Tail(b))

PublishedVideo(params, analyzed) ==
  [CreatedVideo(params) EXCEPT
     !.status = IF analyzed THEN "ANALYZED" ELSE "UPLOADED",
     !.upload_time = Some(UploadSecond), !.youtube_id = Some(YoutubeId)]

InitAggregation ==
  /\ clock = Sec(UploadSecond + MaturitySeconds) + 1
  /\ \E analyzed \in [{0, UploadSecond} -> BOOLEAN], same \in BOOLEAN,
        early \in BOOLEAN :
       /\ videos = [k \in {0, UploadSecond} \cup FailedKeys |->
            IF k \in FailedKeys THEN FailedVideo
            ELSE PublishedVideo(IF same THEN ParamsOf(0) ELSE ParamsOf(k),
                                analyzed[k])]
       /\ \E h0 \in Histories(0, HistoryTimes, HistoryViews, MaxSamples),
             h1 \in LaterHistories(UploadSecond) :
            performance_log =
              MergeByTime((IF early THEN <<EarlySample(0)>> ELSE <<>>) \o h0
                            \o (IF analyzed[0] THEN <<PromotionSample(0)>> ELSE <<>>),
                          h1 \o (IF analyzed[UploadSecond]
                                 THEN <<PromotionSample(UploadSecond)>> ELSE <<>>))
  /\ creator = [p \in Procs |-> CreatorIdle]
  /\ collector = CollectorIdle
  /\ brain = BrainIdle

NextAggregation ==
  \/ BrainChoose
  \/ BrainInsert

SpecAggregation == InitAggregation /\ [][NextAggregation]_vars

-----------------------------------------------------------------------------
(* The aggregation on one ANALYZED job with two samples, the first taken   *)
(* before the window opens or as it opens, the second inside it, and       *)
(* possibly a third one outside the window.                                *)

FirstOffsets == {3000, WindowStart}
OutsideOffsets == {100, WindowStart - 1, WindowEnd + 1, MaturitySeconds}

\* the two samples, and the third one placed by its timestamp
ExampleLogs(k) ==
  { MergeByTime(<<Sample(k, UploadSecond + first, 100),
                  Sample(k, UploadSecond + 20000, 500)>>, third) :
      first \in FirstOffsets,
      third \in {<<>>} \cup { <<Sample(k, UploadSecond + o, v)>> :
                                o \in OutsideOffsets, v \in {50, 900} } }

InitWindowExample ==
  /\ clock = Sec(UploadSecond + MaturitySeconds) + 1
  /\ videos = [k \in {0} |-> PublishedVideo(ParamsOf(0), TRUE)]
  /\ performance_log \in ExampleLogs(0)
  /\ creator = [p \in Procs |-> CreatorIdle]
  /\ collector = CollectorIdle
  /\ brain = BrainIdle

SpecWindowExample == InitWindowExample /\ [][NextAggregation]_vars

-----------------------------------------------------------------------------
(* Telemetry and aggregation on a store where job 0 has no upload time,    *)
(* in any status and with samples of its own, next to a published job.     *)

UnsetUploadVideo(status) ==
  [CreatedVideo(ParamsOf(0)) EXCEPT
     !.status = status, !.youtube_id = Some(YoutubeId)]

InitUnsetUpload ==
  /\ clock = Sec(UploadSecond + MaturitySeconds) + 1
  /\ \E status \in Statuses :
       videos = [k \in {0, UploadSecond} |->
         IF k = 0 THEN UnsetUploadVideo(status)
         ELSE PublishedVideo(ParamsOf(k), FALSE)]
  /\ performance_log \in LaterHistories(0)
  /\ creator = [p \in Procs |-> CreatorIdle]
  /\ collector = CollectorIdle
  /\ brain = BrainIdle

NextUnsetUpload ==
  \/ CollectorStart
  \/ CollectorStep
  \/ BrainChoose
  \/ BrainInsert

SpecUnsetUpload == InitUnsetUpload /\ [][NextUnsetUpload]_vars

-----------------------------------------------------------------------------
(* insert_performance_log called with any key, of a stored job or not *)

\* the keys of the stored jobs and the next second, of which no job exists
SampleKeys == {0, UploadSecond, UploadSecond + 1}

RecordSample ==
  /\ Len(performance_log) < MaxLog
  /\ \E video_key \in SampleKeys, views \in Views :
       performance_log' =
         insert_performance_log(performance_log, video_key, views, clock)
  /\ UNCHANGED <<clock, videos, creator, collector, brain>>

SpecRecordSample == InitTelemetry /\ [][RecordSample]_vars

-----------------------------------------------------------------------------
(* The pipeline end to end: the three triggers, the publisher and the      *)
(* clock from the empty store, the brain running when the store is empty   *)
(* and again once every job in it is ANALYZED.                             *)

\* the cron entry of the brain fires on an empty store or an analyzed one
NothingInFlight == \A k \in DOMAIN videos : videos[k].status = "ANALYZED"

\* no run of a trigger is under way: the runs are short, the hours pass
\* between them
Quiet ==
  /\ brain.pc = "idle"
  /\ collector.pc = "idle"
  /\ \A p \in Procs : creator[p].pc \in {"idle", "done"}

\* creation, publication, the two ends of the window, past maturity
PipelineTimes ==
  { Sec(0), Sec(UploadSecond), Sec(UploadSecond + WindowStart),
    Sec(UploadSecond + WindowEnd), Sec(UploadSecond + MaturitySeconds) + 1 }

NextPipeline ==
  \/ Quiet /\ AdvanceWithin(PipelineTimes)
  \/ NothingInFlight /\ BrainChoose
  \/ BrainInsert
  \/ \E p \in Procs : CreatorSelect(p)
  \/ \E p \in Procs : CreatorBegin(p)
  \/ \E p \in Procs : CreatorProduce(p)
  \/ PublisherUpload
  \/ PublisherAttachId
  \/ CollectorStart
  \/ CollectorStep

SpecPipeline == Init /\ [][NextPipeline]_vars

-----------------------------------------------------------------------------
(* Production runs that stop short: the three triggers and the publisher   *)
(* within the first seconds, a production process ending at any point      *)
(* without running its except clause.                                      *)

\* creator.py main, lines 262-306: "except Exception" catches no
\* KeyboardInterrupt or SystemExit, and a killed process runs no handler at
\* all: the run ends and the row keeps the status last written
CreatorStop(p) ==
  /\ creator[p].pc \in {"selected", "creating"}
  /\ creator' = [creator EXCEPT ![p].pc = "done"]
  /\ UNCHANGED <<clock, videos, performance_log, collector, brain>>

\* no production run is under way
ProductionAtRest == \A p \in Procs : creator[p].pc \in {"idle", "done"}

\* the scheduling run, the telemetry round and the hours are the later
\* events: they come when the production runs have ended or stopped
NextAbandon ==
  \/ Quiet /\ AdvanceProduction
  \/ Quiet /\ BrainChoose
  \/ BrainInsert
  \/ \E p \in Procs : CreatorSelect(p)
  \/ \E p \in Procs : CreatorBegin(p)
  \/ \E p \in Procs : CreatorProduce(p)
  \/ \E p \in Procs : CreatorStop(p)
  \/ PublisherUpload
  \/ PublisherAttachId
  \/ ProductionAtRest /\ CollectorStart
  \/ CollectorStep

SpecAbandon == Init /\ [][NextAbandon]_vars

-----------------------------------------------------------------------------
(* The lifecycle graph of the specification *)

Edges ==
  { <<"PENDING", "CREATING">>, <<"CREATING", "CREATED">>,
    <<"CREATING", "FAILED">>, <<"CREATED", "UPLOADED">>,
    <<"UPLOADED", "ANALYZED">> }

\* what a status update may write of a job
StoredJob(v) == <<v.status, v.generated_script, v.hook_prompt>>

-----------------------------------------------------------------------------
(* C1: a status update whose (current status, requested status) is not an  *)
(* edge of the lifecycle graph fails and leaves the stored job (status,    *)
(* script, hookPrompt) as it was.  The updates of the code write the       *)
(* requested status, so a refused update is a step that writes nothing:    *)
(* every step that ends with a job in a status not reached along an edge   *)
(* must have left that job's status, script and hook prompt alone.         *)
C1_InvalidTransitionRejected ==
  [][\A k \in DOMAIN videos :
       <<videos[k].status, videos'[k].status>> \notin Edges
         => StoredJob(videos'[k]) = StoredJob(videos[k])]_vars

(* C2: two concurrent production triggers never both claim the same        *)
(* PENDING job: no two creator processes are past their update to CREATING *)
(* for the same job key.                                                   *)
C2_NoDoubleClaim ==
  \A p \in Procs : \A q \in Procs :
    (p # q /\ creator[p].pc = "creating" /\ creator[q].pc = "creating")
      => creator[p].job # creator[q].job

(* C3: the statuses of a job only move forward: FAILED and ANALYZED are    *)
(* never left, a job that is CREATED or further is never set to CREATING   *)
(* or FAILED, and FAILED is written only to a job that is CREATING.        *)
C3_StatusMovesForward ==
  [][\A k \in DOMAIN videos :
       LET old == videos[k].status
           new == videos'[k].status
       IN /\ old \in {"FAILED", "ANALYZED"} => new = old
          /\ old \in {"CREATED", "UPLOADED", "ANALYZED"}
               => new \notin {"CREATING", "FAILED"}
          /\ (new = "FAILED" /\ old # "FAILED") => old = "CREATING"]_vars

(* C4: every createJob call (a run of insert_new_job) adds one job to the  *)
(* store: a PENDING job with no upload time and the chosen parameters,     *)
(* under a key that was not in the store, also within one epoch second.    *)
C4_CreateJobAddsJob ==
  [][(brain.pc = "chosen" /\ brain'.pc = "idle")
       => /\ Cardinality(DOMAIN videos') = Cardinality(DOMAIN videos) + 1
          /\ \E k \in DOMAIN videos' \ DOMAIN videos :
               videos'[k] = NewVideo(brain.params[1][1], brain.params[1][2],
                                     brain.params[1][3])]_vars

-----------------------------------------------------------------------------
(* C6: the promotion step of the telemetry round (promoteIfMature), run    *)
(* for an UPLOADED job after its sample was logged.                        *)

\* this step logged a sample of job k, so lines 149-152 ran for k
SampleLoggedFor(k) ==
  /\ Len(performance_log') = Len(performance_log) + 1
  /\ performance_log'[Len(performance_log')].video_key = k

\* the time since upload, in ticks
TicksSinceUpload(k) == clock - Sec(videos[k].upload_time[1])

(* C6 as stated: the job is promoted to ANALYZED if and only if the time   *)
(* since upload is at least 43200 seconds, exactly 43200 seconds included. *)
C6_PromotedFromMaturity ==
  [][\A k \in DOMAIN videos :
       (SampleLoggedFor(k) /\ videos[k].status = "UPLOADED")
         => (videos'[k].status = "ANALYZED"
               <=> TicksSinceUpload(k) >= Sec(43200))]_vars

(* C6 as amended: the job is promoted to ANALYZED if and only if the time  *)
(* since upload is more than 43200 seconds; at exactly 43200 seconds, and  *)
(* below, it stays UPLOADED and nothing of it changes.                     *)
C6_PromotedPastMaturity ==
  [][\A k \in DOMAIN videos :
       (SampleLoggedFor(k) /\ videos[k].status = "UPLOADED")
         => /\ videos'[k].status = "ANALYZED"
                 <=> TicksSinceUpload(k) > Sec(43200)
            /\ TicksSinceUpload(k) <= Sec(43200) => videos'[k] = videos[k]
            /\ videos'[k].status \in {"UPLOADED", "ANALYZED"}]_vars

\* a job sampled at exactly 43200 seconds and still UPLOADED, then promoted
\* by the round one tick later
C6_Witness ==
  \E k \in DOMAIN videos :
    /\ videos[k].status = "ANALYZED"
    /\ TicksSinceUpload(k) = Sec(43200) + 1
    /\ Len(performance_log) >= 2
    /\ \A i \in {Len(performance_log) - 1, Len(performance_log)} :
         /\ performance_log[i].video_key = k
         /\ performance_log[i].timestamp = videos[k].upload_time[1] + 43200

-----------------------------------------------------------------------------
(* C7, C8: the aggregation, stated from the stored jobs and samples *)

\* the samples of job k stamped within [uploadTime + 7200, uploadTime + 36000]
WindowSamples(k) ==
  { i \in DOMAIN performance_log :
      /\ performance_log[i].video_key = k
      /\ performance_log[i].timestamp >= videos[k].upload_time[1] + 7200
      /\ performance_log[i].timestamp <= videos[k].upload_time[1] + 36000 }

SampleViews(i) == performance_log[i].views

JobCombo(k) == <<videos[k].genre, videos[k].image_style, videos[k].voice>>

\* max(views) - min(views) over the window of job k
WindowGain(k) ==
  LET hi == CHOOSE i \in WindowSamples(k) :
              \A j \in WindowSamples(k) : SampleViews(j) <= SampleViews(i)
      lo == CHOOSE i \in WindowSamples(k) :
              \A j \in WindowSamples(k) : SampleViews(i) <= SampleViews(j)
  IN SampleViews(hi) - SampleViews(lo)

\* the rows of job k in the aggregation's per-video gains
GainRowsOf(k) ==
  { g \in VideoGains(videos, performance_log) : g.video_key = k }

(* C7: for every ANALYZED job with an upload time the gain used is         *)
(* max(views) - min(views) over exactly the samples of the inclusive       *)
(* window, and a job with fewer than 2 samples in the window has no gain.  *)
C7_GainOverWindow ==
  \A k \in DOMAIN videos :
    (videos[k].status = "ANALYZED" /\ videos[k].upload_time # None)
      => IF Cardinality(WindowSamples(k)) >= 2
         THEN /\ Cardinality(GainRowsOf(k)) = 1
              /\ \A g \in GainRowsOf(k) : g.view_gain = WindowGain(k)
         ELSE GainRowsOf(k) = {}

\* the aggregation has run on a store where job 0 is ANALYZED with one
\* sample at each end of the window, of 100 and 400 views, one sample a
\* second before the window and the late sample of its promotion: its gain
\* is 300 and its combination is the one reported
C7_Witness ==
  /\ brain.pc = "chosen"
  /\ brain.query_ok
  /\ 0 \in DOMAIN videos
  /\ videos[0].status = "ANALYZED"
  /\ brain.best = Some(JobCombo(0))
  /\ \E a \in WindowSamples(0), b \in WindowSamples(0) :
       /\ performance_log[a].timestamp = videos[0].upload_time[1] + 7200
       /\ performance_log[b].timestamp = videos[0].upload_time[1] + 36000
  /\ \E i \in DOMAIN performance_log :
       /\ performance_log[i].video_key = 0
       /\ performance_log[i].timestamp = videos[0].upload_time[1] + 7199
  /\ \E g \in GainRowsOf(0) : g.view_gain = 300

\* the qualifying jobs: ANALYZED, with an upload time and at least 2 samples
\* in the window
Qualifying ==
  { k \in DOMAIN videos :
      /\ videos[k].status = "ANALYZED"
      /\ videos[k].upload_time # None
      /\ Cardinality(WindowSamples(k)) >= 2 }

QualifyingWith(c) == { k \in Qualifying : JobCombo(k) = c }

RECURSIVE SumOfWindowGains(_)
SumOfWindowGains(jobs) ==
  IF jobs = {} THEN 0
  ELSE LET k == CHOOSE x \in jobs : TRUE
       IN WindowGain(k) + SumOfWindowGains(jobs \ {k})

\* the average gain of combination c is at least that of combination d
AverageAtLeast(c, d) ==
  SumOfWindowGains(QualifyingWith(c)) * Cardinality(QualifyingWith(d))
    >= SumOfWindowGains(QualifyingWith(d)) * Cardinality(QualifyingWith(c))

\* the store without the jobs that are not ANALYZED
AnalyzedOnly == [k \in { j \in DOMAIN videos : videos[j].status = "ANALYZED" }
                   |-> videos[k]]

(* C8: when its query succeeds the aggregator returns a combination whose  *)
(* average window gain over its qualifying ANALYZED jobs is the highest,   *)
(* returns none exactly when no job qualifies, and returns what it would   *)
(* return with every job that is not ANALYZED removed.                     *)
C8_BestIsHighestAverage ==
  (brain.pc = "chosen" /\ brain.query_ok)
    => /\ brain.best = None <=> Qualifying = {}
       /\ brain.best # None
            => /\ QualifyingWith(brain.best[1]) # {}
               /\ \A k \in Qualifying :
                    AverageAtLeast(brain.best[1], JobCombo(k))
       /\ find_best_parameters(videos, performance_log, TRUE)
            = find_best_parameters(AnalyzedOnly, performance_log, TRUE)

\* both jobs share a combination, with gains 300 and 700: the aggregator
\* reports it, at an average of 1000 / 2
C8_Witness ==
  /\ brain.pc = "chosen"
  /\ brain.query_ok
  /\ brain.best # None
  /\ Cardinality(QualifyingWith(brain.best[1])) = 2
  /\ SumOfWindowGains(QualifyingWith(brain.best[1])) = 1000

-----------------------------------------------------------------------------
(* C9: the choice of the parameters *)

Range(f) == { f[i] : i \in DOMAIN f }

FromCatalogs(params) ==
  /\ params[1] \in Range(EXPLORE_GENRES)
  /\ params[2] \in Range(EXPLORE_STYLES)
  /\ params[3] \in Range(EXPLORE_VOICES)

\* one combination averages 300 and another 700
Gains300And700(low, high) ==
  /\ QualifyingWith(low) # {} /\ QualifyingWith(high) # {}
  /\ SumOfWindowGains(QualifyingWith(low)) = 300 * Cardinality(QualifyingWith(low))
  /\ SumOfWindowGains(QualifyingWith(high)) = 700 * Cardinality(QualifyingWith(high))

(* C9: with a best combination and r < 0.8 the parameters are that         *)
(* combination (with averages 300 and 700 and r = 0.1, the 700 one);       *)
(* with r >= 0.8 or no best combination explore_parameters is called and   *)
(* genre, style and voice each come from their catalog.                    *)
C9_ExploitOrExplore ==
  brain.pc = "chosen"
    => /\ (brain.best # None /\ brain.r < 80)
            => (~brain.explored /\ brain.params = brain.best)
       /\ (brain.best = None \/ brain.r >= 80)
            => (brain.explored /\ FromCatalogs(brain.params[1]))
       /\ \A low \in {JobCombo(k) : k \in DOMAIN videos} :
            \A high \in {JobCombo(k) : k \in DOMAIN videos} :
              (Gains300And700(low, high) /\ brain.query_ok /\ brain.r = 10)
                => brain.params = Some(high)

(* C9, independence: whatever the winner is, an exploring run can draw     *)
(* every combination the catalogs offer.                                   *)
C9_ExploreIndependent ==
  (brain.pc = "idle" /\ Cardinality(DOMAIN videos) < MaxJobs)
    => \A e \in explore_parameters :
         ENABLED (BrainChoose /\ brain'.explored /\ brain'.r >= 80
                    /\ brain'.params = Some(e))

\* averages 300 and 700, r = 0.1: the 700 combination was chosen
C9_Witness ==
  /\ brain.pc = "chosen"
  /\ brain.r = 10
  /\ brain.query_ok
  /\ brain.params = brain.best
  /\ \E low \in {JobCombo(k) : k \in DOMAIN videos} :
       Gains300And700(low, brain.params[1])

\* the part of C10 before the insert: a failed query leaves no winner and
\* the run explores, whatever r is
C10_DegradesToExplore ==
  (brain.pc = "chosen" /\ ~brain.query_ok)
    => /\ brain.best = None
       /\ brain.explored
       /\ FromCatalogs(brain.params[1])

(* C10: when the aggregation query fails the scheduling run goes on as     *)
(* with no winner: it explores, takes its parameters from the catalogs and *)
(* creates the new PENDING job.                                            *)
C10_QueryFailureStillSchedules ==
  [][(brain.pc = "chosen" /\ ~brain.query_ok /\ brain'.pc = "idle")
       => /\ brain.best = None
          /\ brain.explored
          /\ FromCatalogs(brain.params[1])
          /\ \E k \in DOMAIN videos' \ DOMAIN videos :
               videos'[k] = NewVideo(brain.params[1][1], brain.params[1][2],
                                     brain.params[1][3])]_vars

-----------------------------------------------------------------------------
(* C11: the pipeline end to end *)

\* the aggregation has run on a store whose only job is ANALYZED and has
\* exactly two samples in the window, their views 250 apart
OneJobGaining250(k) ==
  /\ brain.pc = "chosen"
  /\ brain.query_ok
  /\ DOMAIN videos = {k}
  /\ videos[k].status = "ANALYZED"
  /\ Cardinality(WindowSamples(k)) = 2
  /\ WindowGain(k) = 250

C11_Reported ==
  \A k \in DOMAIN videos :
    OneJobGaining250(k)
      => /\ brain.best = Some(JobCombo(k))
         /\ FameVelocity(VideoGains(videos, performance_log), JobCombo(k))
              = <<250, 1>>

C11_Promoted ==
  \A k \in DOMAIN videos :
    (SampleLoggedFor(k) /\ videos[k].status = "UPLOADED"
       /\ TicksSinceUpload(k) > Sec(43200))
      => videos'[k].status = "ANALYZED"

(* C11: a job created, produced, published and sampled twice inside the    *)
(* window with views 250 apart is set to ANALYZED by the telemetry round   *)
(* that samples it more than 12 hours after upload, and the aggregator,    *)
(* with no other job in the store, then reports the job's combination at   *)
(* a fame velocity of 250.                                                 *)
C11_EndToEnd == []C11_Reported /\ [][C11_Promoted]_vars

\* the job went through production and publication, was sampled at both
\* ends of the window and past maturity, and its combination is reported
C11_Witness ==
  \E k \in DOMAIN videos :
    /\ OneJobGaining250(k)
    /\ videos[k].generated_script = Some(Script)
    /\ videos[k].youtube_id = Some(YoutubeId)
    /\ Len(performance_log) = 3
    /\ brain.best = Some(JobCombo(k))

-----------------------------------------------------------------------------
(* C12: the worked example of the window gain *)

HasSample(k, offset, views) ==
  \E i \in DOMAIN performance_log :
    performance_log[i] = Sample(k, videos[k].upload_time[1] + offset, views)

\* job k has the sample of 100 views at uploadTime + first, the sample of 500
\* views at uploadTime + 20000, and otherwise only samples outside the window
ExampleSamples(k, first) ==
  /\ videos[k].status = "ANALYZED"
  /\ HasSample(k, first, 100)
  /\ HasSample(k, 20000, 500)
  /\ \A i \in WindowSamples(k) :
       performance_log[i].timestamp - videos[k].upload_time[1] \in {first, 20000}

(* C12 as stated: with samples at uploadTime + 3000 (100 views) and        *)
(* uploadTime + 20000 (500 views) the window gain is 400, with or without  *)
(* a third sample outside the window.                                      *)
C12_GainOfExample ==
  \A k \in DOMAIN videos :
    ExampleSamples(k, 3000) => \E g \in GainRowsOf(k) : g.view_gain = 400

(* C12 as amended: the sample at uploadTime + 3000 is outside the window,  *)
(* so the job has one sample in the window and no gain at all; with the    *)
(* first sample at uploadTime + 7200 the gain is 400; in both cases a      *)
(* third sample outside the window changes nothing.                        *)
C12_GainOfExampleInWindow ==
  \A k \in DOMAIN videos :
    /\ ExampleSamples(k, 3000) => GainRowsOf(k) = {}
    /\ ExampleSamples(k, 7200)
         => /\ Cardinality(GainRowsOf(k)) = 1
            /\ \A g \in GainRowsOf(k) : g.view_gain = 400

\* the aggregation has run on the stated samples and a third one outside the
\* window, and reports no combination
C12_Witness ==
  /\ brain.pc = "chosen"
  /\ brain.query_ok
  /\ brain.best = None
  /\ ExampleSamples(0, 3000)
  /\ Len(performance_log) = 3

-----------------------------------------------------------------------------
(* C13: jobs without an upload time *)

Unset(k) == videos[k].upload_time = None

\* no job without an upload time is in the round's selection or in the
\* per-video gains
C13_NotSelected ==
  /\ \A video \in collector.videos_to_check : ~Unset(video.video_key)
  /\ \A k \in DOMAIN videos : Unset(k) => GainRowsOf(k) = {}
  /\ (brain.pc = "chosen" /\ brain.query_ok /\ brain.best # None)
       => \E k \in DOMAIN videos : ~Unset(k) /\ brain.best = Some(JobCombo(k))

\* no step promotes a job without an upload time, or samples it
C13_NotPromoted ==
  \A k \in DOMAIN videos :
    Unset(k) => /\ videos'[k] = videos[k]
                /\ ~SampleLoggedFor(k)

(* C13: a job whose upload time is unset is never selected by the          *)
(* telemetry trigger, never promoted to ANALYZED by it and never           *)
(* contributes a gain to the aggregation, whatever its status and its      *)
(* samples.                                                                *)
C13_UnsetUploadIgnored == []C13_NotSelected /\ [][C13_NotPromoted]_vars

\* job 0 has no upload time, is ANALYZED and has two samples of its own; a
\* telemetry round has sampled the other job and the aggregation has run
C13_Witness ==
  /\ Unset(0)
  /\ videos[0].status = "ANALYZED"
  /\ Cardinality({ i \in DOMAIN performance_log :
                     performance_log[i].video_key = 0 }) = 2
  /\ \E i \in DOMAIN performance_log :
       /\ performance_log[i].video_key = UploadSecond
       /\ performance_log[i].timestamp = IntTime(clock)
  /\ brain.pc = "chosen"
  /\ brain.query_ok

-----------------------------------------------------------------------------
(* C14: the promotion applied to a job that is already ANALYZED.  No step  *)
(* of a telemetry round, the promotion of lines 149-152 included, changes  *)
(* any field of an ANALYZED job, however often the job is sampled again.   *)
C14_PromotionIdempotent ==
  [][\A k \in DOMAIN videos :
       videos[k].status = "ANALYZED" => videos'[k] = videos[k]]_vars

\* a job sampled at exactly 43200 seconds, promoted by the round one tick
\* later and sampled once more by a further round: it is still ANALYZED
C14_Witness ==
  \E k \in DOMAIN videos :
    /\ videos[k].status = "ANALYZED"
    /\ videos[k].youtube_id = Some(YoutubeId)
    /\ Len(performance_log) = 3
    /\ \A i \in DOMAIN performance_log :
         /\ performance_log[i].video_key = k
         /\ performance_log[i].timestamp = videos[k].upload_time[1] + 43200

-----------------------------------------------------------------------------
(* C15: the selection of the next job to produce *)

\* the selection is empty exactly when no job is PENDING
C15_NoneIffNoPending ==
  /\ get_pending_job(videos) = None <=> PendingKeys(videos) = {}
  /\ get_pending_job(videos) # None
       => get_pending_job(videos)[1] \in PendingKeys(videos)

\* a run that selects takes a PENDING job, the one created first
C15_OldestSelected ==
  \A p \in Procs :
    (creator[p].pc \in {"idle", "done"} /\ creator'[p].pc = "selected")
      => /\ creator'[p].job # None
         /\ creator'[p].job[1] \in PendingKeys(videos)
         /\ \A k \in PendingKeys(videos) : creator'[p].job[1] <= k

(* C15: get_pending_job returns none exactly when the store holds no       *)
(* PENDING job, and otherwise the PENDING job of the least key, which is   *)
(* the one created earliest.                                               *)
C15_OldestPendingFirst == []C15_NoneIffNoPending /\ [][C15_OldestSelected]_vars

\* two jobs are PENDING and a run has selected the one of second 0
C15_Witness ==
  \E p \in Procs :
    /\ creator[p].pc = "selected"
    /\ creator[p].job = Some(0)
    /\ {0, UploadSecond} \subseteq PendingKeys(videos)

-----------------------------------------------------------------------------
(* C16: a job whose statistics the round could not get *)

\* the jobs this step found the telemetry source failing for
NewlySkipped == collector'.skipped \ collector.skipped

(* C16: when the telemetry source fails for a job, the step appends no     *)
(* sample, changes no job (none is set to FAILED), takes that job alone    *)
(* out of the round's list and leaves the round running while jobs remain. *)
C16_FailedSourceSkipsJob ==
  [][/\ \A k \in NewlySkipped :
          /\ performance_log' = performance_log
          /\ videos' = videos
          /\ \E video \in collector.videos_to_check :
               /\ video.video_key = k
               /\ collector'.videos_to_check = collector.videos_to_check \ {video}
          /\ collector'.videos_to_check # {} => collector'.pc = "checking"
     /\ \A k \in DOMAIN videos :
          videos'[k].status = "FAILED" => videos[k].status = "FAILED"]_vars

\* the source failed for job 0, which is still UPLOADED and without a
\* sample, and the same round went on to sample the other job
C16_Witness ==
  /\ collector.pc = "idle"
  /\ collector.skipped = {0}
  /\ videos[0].status = "UPLOADED"
  /\ UploadSecond \in DOMAIN videos
  /\ videos[UploadSecond].youtube_id # None
  /\ videos[UploadSecond].upload_time = Some(UploadSecond)
  /\ clock = Sec(UploadSecond + WindowStart)
  /\ Len(performance_log) = 1
  /\ performance_log[1].video_key = UploadSecond
  /\ performance_log[1].timestamp = IntTime(clock)

-----------------------------------------------------------------------------
-----------------------------------------------------------------------------
(* C18: an insert under a key that is already in the store fails with a    *)
(* StoreError that reaches the caller, inserts nothing and leaves the job  *)
(* of that key as it was.                                                  *)
C18_DuplicateKeyFails ==
  [][(brain.pc = "chosen" /\ brain'.pc = "idle"
        /\ KeyExists(videos, IntTime(clock)))
       => /\ videos' = videos
          /\ brain'.insert_error = "raised"]_vars

\* the part of C18 that holds: the refused insert changes no job
C18_DuplicateKeyInsertsNothing ==
  [][(brain.pc = "chosen" /\ brain'.pc = "idle"
        /\ KeyExists(videos, IntTime(clock)))
       => /\ videos' = videos
          /\ brain'.insert_error = "printed"]_vars

-----------------------------------------------------------------------------
(* C19: a sample recorded for a key of no stored job is refused and        *)
(* nothing is appended.                                                    *)
C19_UnknownKeyRefused ==
  [][\A video_key \in SampleKeys :
       video_key \notin DOMAIN videos => ~SampleLoggedFor(video_key)]_vars

\* the consequence C19 draws, which holds of the triggers themselves: every
\* stored sample is of a stored job
C19_SamplesOfStoredJobs ==
  \A i \in DOMAIN performance_log :
    performance_log[i].video_key \in DOMAIN videos

-----------------------------------------------------------------------------
(* C20: no step of the scheduling, production or telemetry trigger (nor of *)
(* the publisher) removes a job or changes its key, genre, style or voice. *)
C20_ParametersFrozen ==
  [][\A k \in DOMAIN videos :
       /\ k \in DOMAIN videos'
       /\ videos'[k].genre = videos[k].genre
       /\ videos'[k].image_style = videos[k].image_style
       /\ videos'[k].voice = videos[k].voice]_vars

\* a job that every trigger has written to: produced, published, sampled,
\* promoted, and used by a later run of the brain that added a job
C20_Witness ==
  \E k \in DOMAIN videos :
    /\ videos[k].status = "ANALYZED"
    /\ videos[k].generated_script = Some(Script)
    /\ \E i \in DOMAIN performance_log : performance_log[i].video_key = k
    /\ \E j \in DOMAIN videos : j # k /\ videos[j].status = "CREATED"

-----------------------------------------------------------------------------
\* C21: in every reachable state, concurrent production triggers included, a
\* FAILED job has no script and no hook prompt, and a CREATED job has the
\* script and the hook prompt passed to the update that completed it.
C21_ArtifactsMatchStatus ==
  \A k \in DOMAIN videos :
    /\ videos[k].status = "FAILED" =>
         /\ videos[k].generated_script = None
         /\ videos[k].hook_prompt = None
    /\ videos[k].status = "CREATED" =>
         /\ videos[k].generated_script = Some(Script)
         /\ videos[k].hook_prompt = Some(Hook)

-----------------------------------------------------------------------------
Snapshot(c) == { video.video_key : video \in c.videos_to_check }

\* a run that read job k has not ended yet: a production run that selected
\* it, or a telemetry round that has it in its list
Held(k) ==
  \/ \E p \in Procs : /\ creator[p].pc \in {"selected", "creating"}
                      /\ creator[p].job = Some(k)
  \/ k \in Snapshot(collector)

\* job k is CREATING and the runs that read it have ended
Abandoned(k) ==
  /\ k \in DOMAIN videos
  /\ videos[k].status = "CREATING"
  /\ ~Held(k)

\* C22: a job left in CREATING by a production process that stopped without
\* reaching its completion or failure handler stays CREATING forever: no
\* later step of the production, scheduling or telemetry trigger selects it
\* or changes its row.
C22_AbandonedStaysCreating ==
  [][\A k \in DOMAIN videos :
       Abandoned(k) =>
         /\ k \in DOMAIN videos'
         /\ videos'[k] = videos[k]
         /\ \A p \in Procs :
              creator'[p].job = Some(k) => creator'[p] = creator[p]
         /\ k \notin Snapshot(collector')]_vars

\* job k is abandoned while a job scheduled after it was produced, published
\* and sampled, every trigger at rest again
C22_Witness ==
  \E k \in DOMAIN videos, later \in DOMAIN videos :
    /\ Abandoned(k)
    /\ later > k
    /\ videos[later].status = "UPLOADED"
    /\ \E i \in DOMAIN performance_log :
         performance_log[i].video_key = later
    /\ Quiet

-----------------------------------------------------------------------------
\* the fame velocity the aggregation computes for the combination of job k
VelocityOf(vs, log, k) ==
  FameVelocity(VideoGains(vs, log), <<vs[k].genre, vs[k].image_style, vs[k].voice>>)

\* C23: once the telemetry trigger has promoted a job to ANALYZED, every
\* sample it records for the job afterwards is stamped later than
\* uploadTime + 36000, so the samples of its window and its window gain never
\* change again; and the fame velocity of a combination changes only in a
\* step in which a job of that combination becomes ANALYZED.
C23_AnalyzedGainFrozen ==
  [][/\ \A k \in DOMAIN videos :
          videos[k].status = "ANALYZED" =>
            /\ videos'[k].status = "ANALYZED"
            /\ SampleLoggedFor(k) =>
                 performance_log'[Len(performance_log')].timestamp
                   > videos[k].upload_time[1] + 36000
            /\ WindowSamples(k)' = WindowSamples(k)
            /\ WindowSamples(k) # {} => WindowGain(k)' = WindowGain(k)
     /\ \A k \in DOMAIN videos :
          VelocityOf(videos', performance_log', k)
              # VelocityOf(videos, performance_log, k)
            => \E j \in DOMAIN videos :
                 /\ JobCombo(j) = JobCombo(k)
                 /\ videos[j].status # "ANALYZED"
                 /\ videos'[j].status = "ANALYZED"]_vars

\* an ANALYZED job with a sample in its window, the sample of the round that
\* promoted it and the sample of a later round
C23_Witness ==
  \E k \in DOMAIN videos :
    /\ videos[k].status = "ANALYZED"
    /\ WindowSamples(k) # {}
    /\ \E i \in DOMAIN performance_log, j \in DOMAIN performance_log :
         /\ i < j
         /\ performance_log[i].video_key = k
         /\ performance_log[j].video_key = k
         /\ performance_log[i].timestamp > videos[k].upload_time[1] + 43200
         /\ performance_log[j].timestamp > videos[k].upload_time[1] + 43200

-----------------------------------------------------------------------------
\* the whole seconds since job k was uploaded
AgeOf(k) == IntTime(clock) - videos[k].upload_time[1]

\* job k is UPLOADED and was uploaded 7 days ago or more
Expired(k) ==
  /\ videos[k].status = "UPLOADED"
  /\ videos[k].upload_time # None
  /\ AgeOf(k) >= 604800

\* C24: an UPLOADED job not promoted by the time its upload is 7 days or
\* more in the past is selected by no later telemetry round and stays
\* UPLOADED (a round is later when it had not listed the job already); a
\* round lists an UPLOADED job only while its age is below 7 days, and
\* promotes it only with a sample recorded at an age above 12 hours.
C24_ExpiredNeverPromoted ==
  [][\A k \in DOMAIN videos :
       /\ (Expired(k) /\ k \notin Snapshot(collector))
            => /\ videos'[k].status = "UPLOADED"
               /\ k \notin Snapshot(collector')
       /\ (k \in Snapshot(collector') /\ k \notin Snapshot(collector))
            => AgeOf(k) < 604800
       /\ (videos[k].status = "UPLOADED" /\ videos'[k].status # "UPLOADED")
            => /\ videos'[k].status = "ANALYZED"
               /\ k \in Snapshot(collector)
               /\ SampleLoggedFor(k)
               /\ TicksSinceUpload(k) > Sec(43200)]_vars

\* job k, published with its identifier, is 7 days old and UPLOADED, while
\* a round at that time has sampled the other job and ended
C24_Witness ==
  \E k \in DOMAIN videos, j \in DOMAIN videos :
    /\ Expired(k)
    /\ videos[k].youtube_id # None
    /\ j # k
    /\ \E i \in DOMAIN performance_log :
         /\ performance_log[i].video_key = j
         /\ performance_log[i].timestamp
              >= videos[k].upload_time[1] + 604800
    /\ collector.pc = "idle"

-----------------------------------------------------------------------------
\* job k has a stored sample
Sampled(k) == \E i \in DOMAIN performance_log : performance_log[i].video_key = k

\* a step sets job k to ANALYZED only when it stores a sample of job k
\* stamped with the current second, the job having an identifier; a job
\* without an identifier gets no sample and is not promoted
C25_PromotedWithItsSample ==
  [][\A k \in DOMAIN videos :
       /\ (videos[k].status # "ANALYZED" /\ videos'[k].status = "ANALYZED")
            => /\ SampleLoggedFor(k)
               /\ performance_log'[Len(performance_log')].timestamp
                    = IntTime(clock)
               /\ videos[k].youtube_id # None
               /\ k \in Snapshot(collector) /\ k \notin Snapshot(collector')
       /\ videos[k].youtube_id = None
            => /\ ~SampleLoggedFor(k)
               /\ videos'[k].status # "ANALYZED"]_vars

\* every ANALYZED job has an upload time, an identifier and a stored sample
C25_AnalyzedComplete ==
  \A k \in DOMAIN videos :
    videos[k].status = "ANALYZED"
      => /\ videos[k].upload_time # None
         /\ videos[k].youtube_id # None
         /\ Sampled(k)

\* C25: the telemetry trigger promotes a job to ANALYZED only in a round in
\* which it obtained statistics and recorded a sample for that same job; a
\* job with no youtube_id is never sampled and never promoted; and every job
\* it set to ANALYZED has an upload time, a youtube_id and at least one
\* stored sample.
C25_PromotedOnlyWhenSampled ==
  []C25_AnalyzedComplete /\ C25_PromotedWithItsSample

\* a round past maturity has promoted job k with its sample and passed over
\* job j, uploaded as long ago, which has no identifier and no sample
C25_Witness ==
  \E k \in DOMAIN videos, j \in DOMAIN videos :
    /\ videos[k].status = "ANALYZED"
    /\ Sampled(k)
    /\ videos[j].status = "UPLOADED"
    /\ videos[j].youtube_id = None
    /\ ~Sampled(j)
    /\ \E i \in DOMAIN performance_log :
         /\ performance_log[i].video_key = k
         /\ performance_log[i].timestamp > videos[j].upload_time[1] + 43200
    /\ collector.pc = "idle"

====
